---- MODULE Spec2Model ----
(***************************************************************************)
(* Model of generate_emails.py: the time formatter format_time, the        *)
(* sheet-name sanitisation and the batch run of generate_emails.           *)
(*                                                                         *)
(* A Python str is modelled as a sequence of one-character strings, so     *)
(* that parsing, formatting, stripping and joining are computed character  *)
(* by character.                                                           *)
(***************************************************************************)
EXTENDS Integers, Sequences, FiniteSets, TLC

VARIABLES
    \* ---- format_time(value) ----
    fmtPc,          \* "call" before the call, "ret" after it
    value,          \* the argument of format_time
    fmtResult,      \* what the call produced: a returned str or an escaped exception
    \* ---- sheet-name sanitisation ----
    sanPc,          \* how many times the sanitising expression has been applied (0..2)
    sheet_name,     \* the sheet name given
    safe_sheet_name,\* the expression applied once
    safe_again,     \* the expression applied to its own result
    \* ---- generate_emails(excel_path, template_file) ----
    pc,             \* position in generate_emails
    excelExists,    \* excel_path.exists()
    excelReadable,  \* pd.read_excel succeeds on the file
    templateDirExists, \* TEMPLATE_DIR.exists()
    template_file,  \* the template file argument: [abs |-> BOOLEAN, exists |-> BOOLEAN]
    templateLoads,  \* env.get_template succeeds
    sheets,         \* the workbook as read: a sequence of [name, columns, rows]
    idx,            \* number of sheets of the loop already completed
    messages,       \* the message list of the sheet being processed
    files,          \* the output directory: path -> content
    writes,         \* the log of open(output_path, "w") calls: sheet indices
    total_messages, \* the accumulator
    stdout,         \* the messages printed, in order
    exitStatus      \* the process exit status, -1 while running

fmtVars == <<fmtPc, value, fmtResult>>
sanVars == <<sanPc, sheet_name, safe_sheet_name, safe_again>>
runVars == <<pc, excelExists, excelReadable, templateDirExists, template_file,
             templateLoads, sheets, idx, messages, files, writes, total_messages, stdout,
             exitStatus>>
vars == <<fmtVars, sanVars, runVars>>

----------------------------------------------------------------------------
(* Characters and strings                                                  *)

AsciiDigits == <<"0", "1", "2", "3", "4", "5", "6", "7", "8", "9">>

\* A non-ASCII decimal digit (ARABIC-INDIC DIGIT THREE): \d and int() accept it.
ArabicThree == "a3"

IsAsciiDigit(c) == \E i \in 1..10 : AsciiDigits[i] = c
IsDigit(c) == IsAsciiDigit(c) \/ c = ArabicThree

DigitVal(c) == IF c = ArabicThree THEN 3 ELSE (CHOOSE i \in 1..10 : AsciiDigits[i] = c) - 1

DigitChar(n) == AsciiDigits[n + 1]

\* The character at position i, or "EOS" past the end.
At(s, i) == IF i >= 1 /\ i <= Len(s) THEN s[i] ELSE "EOS"

----------------------------------------------------------------------------
(* format_time                                                             *)

NoneV == [kind |-> "none"]
StrV(s) == [kind |-> "str", s |-> s]
TimeV(h, m, sec) == [kind |-> "time", hour |-> h, minute |-> m, second |-> sec]
NumV(n) == [kind |-> "num", n |-> n]

Returned(s) == [kind |-> "ret", s |-> s]
Raised(e) == [kind |-> "raise", exc |-> e]

\* The directive patterns of _strptime: %H, %M, %S, two-character
\* alternatives first, then a single \d.
H2(s, i) == \/ At(s, i) = "2" /\ At(s, i + 1) \in {"0", "1", "2", "3"}
            \/ At(s, i) \in {"0", "1"} /\ IsDigit(At(s, i + 1))
M2(s, i) == At(s, i) \in {"0", "1", "2", "3", "4", "5"} /\ IsDigit(At(s, i + 1))
S2(s, i) == \/ At(s, i) = "6" /\ At(s, i + 1) \in {"0", "1"}
            \/ At(s, i) \in {"0", "1", "2", "3", "4", "5"} /\ IsDigit(At(s, i + 1))
D1(s, i) == IsDigit(At(s, i))

\* Length matched by each group of the compiled regex at position i when the
\* rest of the pattern matches after it (0: no match), with backtracking
\* over the alternatives in order.
SLen(s, i) == IF S2(s, i) THEN 2 ELSE IF D1(s, i) THEN 1 ELSE 0
MLen(s, i) ==
    IF M2(s, i) /\ At(s, i + 2) = ":" /\ SLen(s, i + 3) > 0 THEN 2
    ELSE IF D1(s, i) /\ At(s, i + 1) = ":" /\ SLen(s, i + 2) > 0 THEN 1
    ELSE 0
HLen(s, i) ==
    IF H2(s, i) /\ At(s, i + 2) = ":" /\ MLen(s, i + 3) > 0 THEN 2
    ELSE IF D1(s, i) /\ At(s, i + 1) = ":" /\ MLen(s, i + 2) > 0 THEN 1
    ELSE 0

\* int() of the n characters at position i (n is 1 or 2).
IntAt(s, i, n) ==
    IF n = 1 THEN DigitVal(s[i]) ELSE 10 * DigitVal(s[i]) + DigitVal(s[i + 1])

\* strptime without the check that the whole string was consumed.
strptime_prefix(s) ==
    LET lh == HLen(s, 1)
        lm == MLen(s, 1 + lh + 1)
        ls == SLen(s, 1 + lh + 1 + lm + 1)
    IN  IF lh = 0 THEN [ok |-> FALSE, err |-> "does not match format"]
        ELSE IF IntAt(s, lh + lm + 3, ls) > 59
             THEN [ok |-> FALSE, err |-> "second must be in 0..59"]
        ELSE [ok |-> TRUE,
              dt |-> TimeV(IntAt(s, 1, lh), IntAt(s, lh + 2, lm), IntAt(s, lh + lm + 3, ls))]

\* datetime.strptime(s, "%H:%M:%S"): the parsed time, or a ValueError when
\* the regex does not match at the start, when data remains after the match,
\* or when the datetime constructor rejects the second (60, 61).
strptime(s) ==
    LET lh == HLen(s, 1)
        lm == MLen(s, 1 + lh + 1)
        ls == SLen(s, 1 + lh + 1 + lm + 1)
        end == lh + 1 + lm + 1 + ls
    IN  IF lh = 0 THEN [ok |-> FALSE, err |-> "does not match format"]
        ELSE IF end # Len(s) THEN [ok |-> FALSE, err |-> "unconverted data remains"]
        ELSE IF IntAt(s, lh + lm + 3, ls) > 59
             THEN [ok |-> FALSE, err |-> "second must be in 0..59"]
        ELSE [ok |-> TRUE,
              dt |-> TimeV(IntAt(s, 1, lh), IntAt(s, lh + 2, lm), IntAt(s, lh + lm + 3, ls))]

Pad2(n) == <<DigitChar(n \div 10), DigitChar(n % 10)>>

\* HourI without the 12 for midnight and noon.
HourI_mod12(h) == h % 12

\* %I: the hour on the 12-hour clock, 12 for 0 and for 12.
HourI(h) == IF h % 12 = 0 THEN 12 ELSE h % 12

\* %p in the C locale.
AmPm(h) == IF h < 12 THEN <<"A", "M">> ELSE <<"P", "M">>

\* dt.strftime("%I:%M %p")
strftime(dt) == Pad2(HourI(dt.hour)) \o <<":">> \o Pad2(dt.minute) \o <<" ">> \o AmPm(dt.hour)

format_time(v) ==
    IF v.kind = "none" THEN Returned(<<>>)
    ELSE IF v.kind = "str" /\ v.s = <<>> THEN Returned(<<>>)
    ELSE IF v.kind = "str"
         THEN LET p == strptime(v.s)
              IN  IF p.ok THEN Returned(strftime(p.dt)) ELSE Returned(v.s)
    ELSE IF v.kind = "time" THEN Returned(strftime(v))
    ELSE Raised("AttributeError")

----------------------------------------------------------------------------
(* Specification SpecFmt: format_time applied to one argument              *)

T(h, m, sec) == Pad2(h) \o <<":">> \o Pad2(m) \o <<":">> \o Pad2(sec)

\* A number below 100 written without zero padding.
Dec(n) == IF n < 10 THEN <<DigitChar(n)>> ELSE Pad2(n)

\* Every zero-padded 24-hour time string.
PaddedTimes == {T(h, m, sec) : h \in 0..23, m \in 0..59, sec \in 0..59}

\* Time strings with some fields not zero-padded.
UnpaddedTimes ==
    {hh \o <<":">> \o mm \o <<":">> \o ss :
        hh \in {Dec(0), Dec(9), Dec(13), Pad2(9)},
        mm \in {Dec(5), Pad2(5), Dec(30)},
        ss \in {Dec(3), Pad2(3), Dec(59)}}

\* Strings that are not zero-padded ASCII "HH:MM:SS".
OtherStrings ==
    { <<"9", "a", "m">>,
      <<"2", "4", ":", "0", "0", ":", "0", "0">>,
      <<"1", "2", ":", "6", "0", ":", "0", "0">>,
      <<"1", "2", ":", "0", "0", ":", "6", "0">>,
      <<"1", "2", ":", "0", "0", ":", "6", "1">>,
      <<"1", "2", ":", "0", "0", ":", "7", "5">>,
      <<" ", "0", "9", ":", "0", "0", ":", "0", "0">>,
      <<"0", "9", ":", "0", "0", ":", "0", "0", " ">>,
      <<"0", "9", ":", "0", "0", ":", "0", "0", ":", "0", "0">>,
      <<"0", "0", "9", ":", "0", "0", ":", "0", "0">>,
      <<"1", "2", ":", "0", "0">>,
      <<"1", "2", "-", "0", "0", "-", "0", "0">>,
      <<":", ":">>,
      <<" ">>,
      <<ArabicThree, ":", ArabicThree, ":", ArabicThree>>,
      <<"0", ArabicThree, ":", "0", "0", ":", "0", "0">>,
      <<ArabicThree, "3", ":", "0", "0", ":", "0", "0">> }

\* Already-parsed time values (datetime objects).
TimeObjects == {TimeV(h, m, sec) : h \in 0..23, m \in {0, 5, 59}, sec \in {0, 59}}

\* Values that are neither None, nor str, nor time-like.
OtherValues == {NumV(0), NumV(5)}

FmtInputs ==
    {NoneV, StrV(<<>>)}
        \cup {StrV(s) : s \in PaddedTimes \cup UnpaddedTimes \cup OtherStrings}
        \cup TimeObjects \cup OtherValues

NoResult == [kind |-> "pending"]

FmtIdle == fmtPc = "idle" /\ value = NoneV /\ fmtResult = NoResult
SanIdle == sanPc = -1 /\ sheet_name = <<>> /\ safe_sheet_name = <<>> /\ safe_again = <<>>
RunIdle ==
    /\ pc = "idle" /\ excelExists = FALSE /\ excelReadable = FALSE
    /\ templateDirExists = FALSE /\ template_file = [abs |-> FALSE, exists |-> FALSE]
    /\ templateLoads = FALSE /\ sheets = <<>> /\ idx = 0 /\ messages = <<>>
    /\ files = <<>>
    /\ writes = <<>> /\ total_messages = 0 /\ stdout = <<>> /\ exitStatus = -1

InitFmt ==
    /\ fmtPc = "call" /\ value \in FmtInputs /\ fmtResult = NoResult
    /\ SanIdle /\ RunIdle

FormatTimeCall ==
    /\ fmtPc = "call"
    /\ fmtResult' = format_time(value)
    /\ fmtPc' = "ret"
    /\ UNCHANGED <<value, sanVars, runVars>>

NextFmt == FormatTimeCall

SpecFmt == InitFmt /\ [][NextFmt]_vars

----------------------------------------------------------------------------
(* Sheet-name sanitisation, and specification SpecSan                      *)

MaxNameLen == 3

\* Characters of sheet names: letters and digits (one of them non-ASCII),
\* the two kept punctuation characters, and characters that are replaced.
EAcute == "e'"
AlnumChars == {"a", "Z", "1", EAcute}
OtherChars == {" ", "!"}
NameChars == AlnumChars \cup {"-", "_"} \cup OtherChars

isalnum(c) == c \in AlnumChars

\* SanitizeChar with "-" left out of the kept characters.
SanitizeChar_no_dash(c) == IF isalnum(c) \/ c = "_" THEN c ELSE "_"


SanitizeChar(c) == IF isalnum(c) \/ c \in {"-", "_"} THEN c ELSE "_"

Sanitize(name) == [i \in 1..Len(name) |-> SanitizeChar(name[i])]

Names == UNION {[1..n -> NameChars] : n \in 0..MaxNameLen}

InitSan ==
    /\ sanPc = 0 /\ sheet_name \in Names
    /\ safe_sheet_name = <<>> /\ safe_again = <<>>
    /\ FmtIdle /\ RunIdle

SanitizeOnce ==
    /\ sanPc = 0
    /\ safe_sheet_name' = Sanitize(sheet_name)
    /\ sanPc' = 1
    /\ UNCHANGED <<sheet_name, safe_again, fmtVars, runVars>>

SanitizeAgain ==
    /\ sanPc = 1
    /\ safe_again' = Sanitize(safe_sheet_name)
    /\ sanPc' = 2
    /\ UNCHANGED <<sheet_name, safe_sheet_name, fmtVars, runVars>>

NextSan == SanitizeOnce \/ SanitizeAgain

SpecSan == InitSan /\ [][NextSan]_vars

----------------------------------------------------------------------------
(* generate_emails: rendering one row, one sheet                           *)

Whitespace == {" ", "\n", "\t"}

\* str.strip()
RECURSIVE LStrip(_)
LStrip(s) == IF s # <<>> /\ Head(s) \in Whitespace THEN LStrip(Tail(s)) ELSE s

RECURSIVE RStrip(_)
RStrip(s) ==
    IF s # <<>> /\ s[Len(s)] \in Whitespace THEN RStrip(SubSeq(s, 1, Len(s) - 1)) ELSE s

Strip(s) == RStrip(LStrip(s))

\* sep.join(parts)
RECURSIVE Join(_, _)
Join(sep, parts) ==
    IF parts = <<>> THEN <<>>
    ELSE IF Len(parts) = 1 THEN parts[1]
    ELSE parts[1] \o sep \o Join(sep, Tail(parts))

\* "-" * 60
SeparatorWidth == 60
separator == [i \in 1..SeparatorWidth |-> "-"]

\* The template of the run, "\nHi {{ Time }}\n": template.render(**context);
\* an undefined variable renders as the empty string.
TemplateHead == <<"\n", "H", "i", " ">>
TemplateTail == <<"\n">>
Render(context) ==
    TemplateHead
        \o (IF "Time" \in DOMAIN context THEN context["Time"] ELSE <<>>)
        \o TemplateTail

\* row.get('email', '')
RowGetEmail(row) == IF "email" \in DOMAIN row THEN row["email"] ELSE <<>>

\* The body of the row loop: the context with its "Time" entry formatted, and,
\* inside the "Time" branch, the message appended for the row.
RowMessages(row) ==
    IF "Time" \in DOMAIN row
    THEN LET context == [col \in DOMAIN row |->
                            IF col = "Time" THEN format_time(StrV(row[col])).s ELSE row[col]]
             text == Strip(Render(context))
             to_line == <<"T", "o", ":", " ">> \o Strip(RowGetEmail(row))
         IN  << to_line \o <<"\n", "\n">> \o text \o <<"\n", "\n">> \o separator \o <<"\n">> >>
    ELSE <<>>

\* The message list after the row loop over a sheet's rows.
RECURSIVE SheetMessages(_)
SheetMessages(rows) ==
    IF rows = <<>> THEN <<>> ELSE RowMessages(Head(rows)) \o SheetMessages(Tail(rows))

\* output_dir / f"emails_output_{safe_sheet_name}.txt"
OutputPath(name) == <<"emails_output_">> \o Sanitize(name) \o <<".txt">>

\* SheetCount counting the messages collected instead of the rows.
SheetCount_messages(sheet, msgs) == Len(msgs)

\* What total_messages is increased by for a sheet: len(df).
SheetCount(sheet, msgs) == Len(sheet.rows)

----------------------------------------------------------------------------
(* The inputs of a run                                                     *)

MaxSheets == 2
MaxRows == 2

SheetNames == { <<"a", " ", "1">>, <<"a", "_", "1">>, <<"Z", "-", "1">> }

TimeCells == { <<"1", "3", ":", "3", "0", ":", "0", "0">>, <<>> }
EmailCells == { <<" ", "a", "@", "Z", " ">> }

CellsOf(col) == IF col = "Time" THEN TimeCells ELSE EmailCells

\* The column headers of a sheet.
ColumnSets == { {"email", "Time"}, {"email"} }

RowsOver(cols) == {row \in [cols -> TimeCells \cup EmailCells] :
                     \A col \in cols : row[col] \in CellsOf(col)}

\* The sheets a workbook can hold: df after fillna(""), every cell a str.
Sheets ==
    UNION { [name : SheetNames, columns : {cols},
             rows : UNION {[1..n -> RowsOver(cols)] : n \in 0..MaxRows}] :
            cols \in ColumnSets }

\* A workbook: at least one sheet, in order, the names pairwise different.
Workbooks ==
    UNION { {wb \in [1..n -> Sheets] :
                \A i, j \in 1..n : i # j => wb[i].name # wb[j].name} : n \in 1..MaxSheets }

----------------------------------------------------------------------------
(* generate_emails, step by step                                           *)

PrintLine(line) == stdout' = Append(stdout, line)

\* sys.exit(1) after a message
Exit1(line) ==
    /\ PrintLine(line)
    /\ exitStatus' = 1
    /\ pc' = "exited"

\* An exception nothing catches: the interpreter prints the traceback to
\* stderr and ends with status 1.
Uncaught ==
    /\ exitStatus' = 1
    /\ pc' = "raised"

Init ==
    /\ pc = "check_excel"
    /\ excelExists \in BOOLEAN
    /\ excelReadable \in BOOLEAN
    /\ excelReadable => excelExists
    /\ templateDirExists \in BOOLEAN
    /\ template_file \in [abs : BOOLEAN, exists : BOOLEAN]
    \* a file named relative to TEMPLATE_DIR exists only inside an existing folder
    /\ (~template_file.abs /\ template_file.exists) => templateDirExists
    /\ templateLoads \in BOOLEAN
    \* the loader finds only an existing file below its search path
    /\ templateLoads => (~template_file.abs /\ template_file.exists)
    /\ sheets = <<>> /\ idx = 0 /\ messages = <<>>
    /\ files = <<>> /\ writes = <<>>
    /\ total_messages = 0 /\ stdout = <<>> /\ exitStatus = -1
    /\ FmtIdle /\ SanIdle

Inputs == <<excelExists, excelReadable, templateDirExists, template_file, templateLoads>>

CheckExcel ==
    /\ pc = "check_excel"
    /\ IF ~excelExists
       THEN Exit1([msg |-> "Excel file not found"])
       ELSE pc' = "check_template_file" /\ UNCHANGED <<stdout, exitStatus>>
    /\ UNCHANGED <<Inputs, sheets, idx, messages, files, writes, total_messages>>
    /\ UNCHANGED <<fmtVars, sanVars>>

CheckTemplateFile ==
    /\ pc = "check_template_file"
    /\ IF ~template_file.exists
       THEN Exit1([msg |-> "Template file not found"])
       ELSE pc' = "check_template_dir" /\ UNCHANGED <<stdout, exitStatus>>
    /\ UNCHANGED <<Inputs, sheets, idx, messages, files, writes, total_messages>>
    /\ UNCHANGED <<fmtVars, sanVars>>

CheckTemplateDir ==
    /\ pc = "check_template_dir"
    /\ IF ~templateDirExists
       THEN Exit1([msg |-> "Template folder not found"])
       ELSE pc' = "read_excel" /\ UNCHANGED <<stdout, exitStatus>>
    /\ UNCHANGED <<Inputs, sheets, idx, messages, files, writes, total_messages>>
    /\ UNCHANGED <<fmtVars, sanVars>>

ReadExcel ==
    /\ pc = "read_excel"
    /\ excelReadable
    /\ \E wb \in Workbooks : sheets' = wb
    /\ pc' = "get_template"
    /\ UNCHANGED <<Inputs, idx, messages, files, writes, total_messages, stdout, exitStatus>>
    /\ UNCHANGED <<fmtVars, sanVars>>

\* ReadExcelFails without the sys.exit(1): the run goes on with no sheets.
ReadExcelFails_no_exit ==
    /\ pc = "read_excel"
    /\ ~excelReadable
    /\ PrintLine([msg |-> "Failed to read Excel file"])
    /\ pc' = "get_template"
    /\ UNCHANGED <<Inputs, sheets, idx, messages, files, writes, total_messages, exitStatus>>
    /\ UNCHANGED <<fmtVars, sanVars>>


ReadExcelFails ==
    /\ pc = "read_excel"
    /\ ~excelReadable
    /\ Exit1([msg |-> "Failed to read Excel file"])
    /\ UNCHANGED <<Inputs, sheets, idx, messages, files, writes, total_messages>>
    /\ UNCHANGED <<fmtVars, sanVars>>

GetTemplate ==
    /\ pc = "get_template"
    /\ IF templateLoads
       THEN pc' = "render" /\ UNCHANGED exitStatus
       ELSE Uncaught
    /\ UNCHANGED <<Inputs, sheets, idx, messages, files, writes, total_messages, stdout>>
    /\ UNCHANGED <<fmtVars, sanVars>>

\* The row loop of the next sheet.
RenderSheet ==
    /\ pc = "render"
    /\ idx < Len(sheets)
    /\ messages' = SheetMessages(sheets[idx + 1].rows)
    /\ pc' = "write"
    /\ UNCHANGED <<Inputs, sheets, idx, files, writes, total_messages, stdout, exitStatus>>
    /\ UNCHANGED <<fmtVars, sanVars>>

\* template.render raises on some row of the next sheet (rendering happens
\* only for rows with a "Time" column).
RenderFails ==
    /\ pc = "render"
    /\ idx < Len(sheets)
    /\ "Time" \in sheets[idx + 1].columns
    /\ sheets[idx + 1].rows # <<>>
    /\ Uncaught
    /\ UNCHANGED <<Inputs, sheets, idx, messages, files, writes, total_messages, stdout>>
    /\ UNCHANGED <<fmtVars, sanVars>>

\* files with the file at path created or replaced.
Stored(path, content) ==
    [p \in DOMAIN files \cup {path} |-> IF p = path THEN content ELSE files[p]]

\* open(output_path, "w"), f.write("\n".join(messages)), the count and the report.
WriteSheet ==
    /\ pc = "write"
    /\ LET sheet == sheets[idx + 1]
           output_path == OutputPath(sheet.name)
       IN  /\ files' = Stored(output_path, Join(<<"\n">>, messages))
           /\ writes' = Append(writes, idx + 1)
           /\ total_messages' = total_messages + SheetCount(sheet, messages)
           /\ PrintLine([msg |-> "messages written", n |-> Len(sheet.rows), path |-> output_path])
    /\ idx' = idx + 1
    /\ pc' = "render"
    /\ UNCHANGED <<Inputs, sheets, messages, exitStatus>>
    /\ UNCHANGED <<fmtVars, sanVars>>

\* open(output_path, "w") raises (permissions): nothing is created or changed.
OpenFails ==
    /\ pc = "write"
    /\ Uncaught
    /\ UNCHANGED <<Inputs, sheets, idx, messages, files, writes, total_messages, stdout>>
    /\ UNCHANGED <<fmtVars, sanVars>>

\* How much of the content can be on disk when the write fails.
PartialLengths(content) == {0, Len(content) \div 2}

\* The file was opened, hence created or truncated, and the write or the
\* flush at close raises (disk full): a part of the content is in the file.
WriteFails ==
    /\ pc = "write"
    /\ LET output_path == OutputPath(sheets[idx + 1].name)
           content == Join(<<"\n">>, messages)
       IN  \E n \in PartialLengths(content) :
              files' = Stored(output_path, SubSeq(content, 1, n))
    /\ writes' = Append(writes, idx + 1)
    /\ Uncaught
    /\ UNCHANGED <<Inputs, sheets, idx, messages, total_messages, stdout>>
    /\ UNCHANGED <<fmtVars, sanVars>>

\* After the last sheet: the summary line; the function returns, status 0.
Finish ==
    /\ pc = "render"
    /\ idx = Len(sheets)
    /\ PrintLine([msg |-> "Done", total |-> total_messages, nsheets |-> Len(sheets)])
    /\ exitStatus' = 0
    /\ pc' = "done"
    /\ UNCHANGED <<Inputs, sheets, idx, messages, files, writes, total_messages>>
    /\ UNCHANGED <<fmtVars, sanVars>>

Next ==
    \/ CheckExcel
    \/ CheckTemplateFile
    \/ CheckTemplateDir
    \/ ReadExcel
    \/ ReadExcelFails
    \/ GetTemplate
    \/ RenderSheet
    \/ RenderFails
    \/ WriteSheet
    \/ OpenFails
    \/ WriteFails
    \/ Finish

Spec == Init /\ [][Next]_vars

----------------------------------------------------------------------------
(* Properties of format_time (specification SpecFmt)                       *)

\* The number written by the two ASCII digits at positions i, i + 1.
Num2(s, i) == 10 * DigitVal(s[i]) + DigitVal(s[i + 1])

\* s is a zero-padded 24-hour "HH:MM:SS": HH in 00..23, MM and SS in 00..59.
IsHHMMSS(s) ==
    /\ Len(s) = 8
    /\ s[3] = ":" /\ s[6] = ":"
    /\ \A i \in {1, 2, 4, 5, 7, 8} : IsAsciiDigit(s[i])
    /\ Num2(s, 1) <= 23 /\ Num2(s, 4) <= 59 /\ Num2(s, 7) <= 59

\* The 12-hour rendering of a zero-padded time: 00 is 12 AM, 12 is 12 PM,
\* 13..23 are 01..11 PM; the minutes are copied, the seconds dropped.
TwelveHour(s) ==
    LET h == Num2(s, 1)
        hh == IF h = 0 THEN 12 ELSE IF h <= 12 THEN h ELSE h - 12
    IN  <<DigitChar(hh \div 10), DigitChar(hh % 10), ":", s[4], s[5], " ",
          IF h < 12 THEN "A" ELSE "P", "M">>

\* C1: for every valid zero-padded 24-hour time string, format_time returns
\* "hh:MM AM/PM" with hh in 01..12 zero-padded, the minutes unchanged, the
\* seconds dropped, and AM exactly when HH < 12.
C1_ValidTimeFormatted ==
    (fmtPc = "ret" /\ value.kind = "str" /\ IsHHMMSS(value.s))
        => fmtResult = Returned(TwelveHour(value.s))

C1_Witness ==
    /\ fmtPc = "ret"
    /\ value = StrV(<<"1", "3", ":", "3", "0", ":", "5", "9">>)
    /\ fmtResult = Returned(<<"0", "1", ":", "3", "0", " ", "P", "M">>)

\* C2: format_time is total: whatever the argument, it returns a string and
\* no exception escapes it.
C2_Total == fmtPc = "ret" => fmtResult.kind = "ret"

\* C3 as stated: every string that is not a zero-padded in-range "HH:MM:SS"
\* is returned unchanged, and the empty string and None give "".
C3_NonStrictUnchanged ==
    fmtPc = "ret" =>
        /\ (value.kind = "none" \/ value = StrV(<<>>)) => fmtResult = Returned(<<>>)
        /\ (value.kind = "str" /\ ~IsHHMMSS(value.s)) => fmtResult = Returned(value.s)

\* s is H:M:S with each field one or two decimal digits, H at most 23, M and
\* S at most 59; zero padding is optional.
FieldIs(s, i, n, max) ==
    /\ \A k \in i..(i + n - 1) : IsDigit(s[k])
    /\ (IF n = 1 THEN DigitVal(s[i]) ELSE Num2(s, i)) <= max

IsLenientTime(s) ==
    \E lh, lm, ls \in 1..2 :
        /\ Len(s) = lh + lm + ls + 2
        /\ s[lh + 1] = ":" /\ s[lh + lm + 2] = ":"
        /\ FieldIs(s, 1, lh, 23)
        /\ FieldIs(s, lh + 2, lm, 59)
        /\ FieldIs(s, lh + lm + 3, ls, 59)

\* C3 amended: every string that is not of the form H:M:S, each field one or
\* two decimal digits with H <= 23, M <= 59, S <= 59 (zero padding optional),
\* is returned unchanged, and the empty string and None give "".
C3_MalformedUnchanged ==
    fmtPc = "ret" =>
        /\ (value.kind = "none" \/ value = StrV(<<>>)) => fmtResult = Returned(<<>>)
        /\ (value.kind = "str" /\ ~IsLenientTime(value.s)) => fmtResult = Returned(value.s)

C3_Witness ==
    /\ fmtPc = "ret"
    /\ value = StrV(<<"1", "2", ":", "0", "0", ":", "6", "0">>)
    /\ fmtResult = Returned(<<"1", "2", ":", "0", "0", ":", "6", "0">>)

----------------------------------------------------------------------------
(* Properties of the sanitisation (specification SpecSan)                  *)

IsKeptChar(c) == c \in AlnumChars \/ c = "-" \/ c = "_"

\* C9: sanitising is idempotent, sanitize(sanitize(s)) = sanitize(s), and a
\* name made only of alphanumerics, "-" and "_" is returned unchanged.
C9_SanitizeIdempotent ==
    /\ sanPc = 2 => safe_again = safe_sheet_name
    /\ (sanPc >= 1 /\ \A i \in 1..Len(sheet_name) : IsKeptChar(sheet_name[i]))
          => safe_sheet_name = sheet_name

C9_Witness ==
    /\ sanPc = 2
    /\ sheet_name = <<"a", " ", "-">>
    /\ safe_sheet_name = <<"a", "_", "-">>
    /\ safe_again = <<"a", "_", "-">>

----------------------------------------------------------------------------
(* Properties of a run of generate_emails (specification Spec)             *)

LastLine == stdout[Len(stdout)]

\* C4: a missing template folder stops the run with "Template folder not
\* found", a missing template file in an existing folder with "Template
\* file not found".
C4_DistinctTemplateMessages ==
    (pc = "exited" /\ excelExists) =>
        /\ ~templateDirExists => LastLine.msg = "Template folder not found"
        /\ (templateDirExists /\ ~template_file.exists)
              => LastLine.msg = "Template file not found"

\* C5: after a completed run over n sheets of pairwise different names there
\* are exactly n output files, no two sheets share an output path, and each
\* sheet's messages are in its own file.
C5_OneFilePerSheet ==
    pc = "done" =>
        /\ Cardinality(DOMAIN files) = Len(sheets)
        /\ \A i, j \in 1..Len(sheets) :
              i # j => OutputPath(sheets[i].name) # OutputPath(sheets[j].name)
        /\ \A i \in 1..Len(sheets) :
              /\ OutputPath(sheets[i].name) \in DOMAIN files
              /\ files[OutputPath(sheets[i].name)]
                    = Join(<<"\n">>, SheetMessages(sheets[i].rows))

\* The block of a row: "To: " and the trimmed email value, a blank line, the
\* stripped rendered text, a blank line, a line of 60 dashes.
BlockOf(row) ==
    LET context == [col \in DOMAIN row |->
                       IF col = "Time" THEN format_time(StrV(row[col])).s ELSE row[col]]
    IN  <<"T", "o", ":", " ">> \o Strip(RowGetEmail(row)) \o <<"\n", "\n">>
            \o Strip(Render(context)) \o <<"\n", "\n">>
            \o [i \in 1..60 |-> "-"] \o <<"\n">>

\* C6: the file written for a sheet holds exactly one block per row of the
\* sheet, in row order, joined by a single newline (empty for no rows).
C6_OneBlockPerRow ==
    (writes # <<>> /\ writes[Len(writes)] = idx) =>
        LET sheet == sheets[idx]
        IN  /\ OutputPath(sheet.name) \in DOMAIN files
            /\ files[OutputPath(sheet.name)]
                  = Join(<<"\n">>, [i \in 1..Len(sheet.rows) |-> BlockOf(sheet.rows[i])])

RECURSIVE SumRows(_)
SumRows(wb) == IF wb = <<>> THEN 0 ELSE Len(Head(wb).rows) + SumRows(Tail(wb))

\* C7: the summary of a completed run reports the sum of the row counts of
\* all sheets and the number of sheets.
C7_SummaryCounts ==
    pc = "done" =>
        /\ LastLine.msg = "Done"
        /\ LastLine.total = SumRows(sheets)
        /\ LastLine.nsheets = Len(sheets)

C7_Witness ==
    /\ pc = "done"
    /\ Len(sheets) = 2
    /\ "Time" \notin sheets[1].columns /\ Len(sheets[1].rows) = 2
    /\ "Time" \in sheets[2].columns /\ Len(sheets[2].rows) = 1
    /\ LastLine.total = 3

\* C8: with the spreadsheet missing, the template folder missing, the
\* template file missing or the spreadsheet unreadable, the run never gets
\* past the checks and the read, it goes on until it exits with status 1,
\* and no output file is created or written.
C8_FailFast ==
    (~excelExists \/ ~templateDirExists \/ ~template_file.exists \/ ~excelReadable) =>
        /\ DOMAIN files = {} /\ writes = <<>>
        /\ pc \in {"check_excel", "check_template_file", "check_template_dir",
                   "read_excel", "exited"}
        /\ pc = "exited" => exitStatus = 1
        /\ pc # "exited" => ENABLED Next

C8_Witness ==
    /\ pc = "exited" /\ exitStatus = 1
    /\ excelExists /\ templateDirExists /\ template_file.exists /\ ~excelReadable
    /\ LastLine.msg = "Failed to read Excel file"
    /\ DOMAIN files = {}

\* The sheets among the first n whose output path is the one of sheet j.
SamePath(j, n) == {i \in 1..n : OutputPath(sheets[i].name) = OutputPath(sheets[j].name)}

Max(S) == CHOOSE x \in S : \A y \in S : y <= x

\* C10: sheets are written in workbook order, each before the next is
\* rendered; when rendering or writing fails at sheet k the run ends there,
\* the output files of sheets 1..k-1 are still fully written, no sheet after
\* k was written, and the summary line is not printed.
C10_FailStop ==
    /\ \A i \in 1..Len(writes) : writes[i] = i
    /\ pc \in {"render", "done"} => Len(writes) = idx
    /\ pc = "raised" =>
          /\ \A j \in 1..idx :
                /\ OutputPath(sheets[j].name) \in DOMAIN files
                /\ files[OutputPath(sheets[j].name)]
                      = Join(<<"\n">>, SheetMessages(sheets[Max(SamePath(j, idx))].rows))
          /\ \A i \in 1..Len(writes) : writes[i] <= idx + 1
          /\ \A i \in 1..Len(stdout) : stdout[i].msg # "Done"

====
